---- MODULE Spec2Model ----
(***************************************************************************)
(* A model of ETL.py: fetch_data (paginated fetch with bounded retry and   *)
(* exponential backoff), parse_records (flattening of one page) and        *)
(* load_to_bigquery (append load into a dated warehouse table).            *)
(*                                                                         *)
(* Three specifications share the module:                                  *)
(*   SpecParse  parse_records applied to bounded page payloads             *)
(*   Spec       one call of fetch_data against an arbitrary server         *)
(*   SpecLoad   a sequence of load_to_bigquery calls against a warehouse   *)
(* FairSpec is Spec with weak fairness of its steps.                       *)
(***************************************************************************)
EXTENDS Integers, Sequences, FiniteSets, TLC

(***************************************************************************)
(* Bounds of the model.                                                    *)
(***************************************************************************)
\* list elements (campaigns + ads + metrics) in a generated page payload
MaxNodes == 5
\* pages one fetch may be led through by the server
MaxPages == 2
\* max_retries is drawn from 0 .. MaxRetries
MaxRetries == 3
\* load_to_bigquery calls in one behaviour
MaxLoads == 2
\* rows in one batch handed to load_to_bigquery
MaxRows == 2

(***************************************************************************)
(* Decoded JSON values, as Python sees them after response.json(): a tag t *)
(* and a value v.  A dict's v is a function from its keys to values (a key *)
(* that is absent is not in the domain); a list's v is a sequence.         *)
(***************************************************************************)
JNull == [t |-> "null", v |-> 0]
JNum(n) == [t |-> "num", v |-> n]
JStr(s) == [t |-> "str", v |-> s]
JBool(b) == [t |-> "bool", v |-> b]
JList(s) == [t |-> "list", v |-> s]
JDict(f) == [t |-> "dict", v |-> f]

\* dict.get(key, default): only a dict has the method
HasGet(x) == x.t = "dict"
Get(d, key, default) == IF key \in DOMAIN d.v THEN d.v[key] ELSE default

\* `for e in x` raises TypeError on None and on a number
Iterable(x) == x.t = "list"

\* Python truthiness, as tested by `while has_next_page` and `if cursor`
Truthy(x) ==
    CASE x.t = "null" -> FALSE
      [] x.t = "bool" -> x.v
      [] x.t = "num" -> x.v # 0
      [] x.t = "str" -> x.v # ""
      [] x.t = "list" -> x.v # <<>>
      [] x.t = "dict" -> DOMAIN x.v # {}

(***************************************************************************)
(* parse_records.  The outcome of a call is either a list of records or    *)
(* an exception leaving the function.                                      *)
(***************************************************************************)
Returned(recs) == [raised |-> FALSE, records |-> recs]
Raised == [raised |-> TRUE, records |-> <<>>]

\* the record built from one metric (lines 162-171)
MakeRecord(campaign_name, ad_name, metric) ==
    [campaign |-> campaign_name,
     ad_name |-> ad_name,
     date |-> Get(metric, "date", JStr("")),
     cost |-> Get(metric, "cost", JNum(0)),
     impressions |-> Get(metric, "impressions", JNum(0)),
     clicks |-> Get(metric, "clicks", JNum(0)),
     conversions |-> Get(metric, "conversions", JNum(0)),
     revenue |-> Get(metric, "revenue", JNum(0))]

\* for metric in metrics: a metric without .get raises inside the try and is
\* skipped (lines 160-175)
RECURSIVE MetricLoop(_, _, _)
MetricLoop(campaign_name, ad_name, metrics) ==
    IF metrics = <<>> THEN <<>>
    ELSE LET metric == Head(metrics)
             rest == MetricLoop(campaign_name, ad_name, Tail(metrics))
         IN IF HasGet(metric)
            THEN <<MakeRecord(campaign_name, ad_name, metric)>> \o rest
            ELSE rest

\* for ad in ads: an ad without .get is skipped; the iteration over the ad's
\* metrics is outside every try (lines 152-160)
RECURSIVE AdLoop(_, _, _)
AdLoop(campaign_name, ads, acc) ==
    IF ads = <<>> THEN Returned(acc)
    ELSE LET ad == Head(ads) IN
         IF ~HasGet(ad) THEN AdLoop(campaign_name, Tail(ads), acc)
         ELSE LET ad_name == Get(ad, "name", JStr(""))
                  metrics == Get(ad, "metrics", JList(<<>>))
              IN IF ~Iterable(metrics) THEN Raised
                 ELSE AdLoop(campaign_name, Tail(ads),
                             acc \o MetricLoop(campaign_name, ad_name, metrics.v))

\* for campaign in campaigns: a campaign without .get is skipped; the
\* iteration over the campaign's ads is outside every try (lines 144-152)
RECURSIVE CampaignLoop(_, _)
CampaignLoop(campaigns, acc) ==
    IF campaigns = <<>> THEN Returned(acc)
    ELSE LET campaign == Head(campaigns) IN
         IF ~HasGet(campaign) THEN CampaignLoop(Tail(campaigns), acc)
         ELSE LET campaign_name == Get(campaign, "name", JStr(""))
                  ads == Get(campaign, "ads", JList(<<>>))
              IN IF ~Iterable(ads) THEN Raised
                 ELSE LET r == AdLoop(campaign_name, ads.v, acc)
                      IN IF r.raised THEN Raised
                         ELSE CampaignLoop(Tail(campaigns), r.records)

\* the guarded access response.get("data", {}).get("campaigns", []):
\* "caught" when either .get raised (lines 138-142)
AccessCampaigns(response) ==
    IF ~HasGet(response) THEN [caught |-> TRUE, campaigns |-> JNull]
    ELSE LET data == Get(response, "data", JDict(<<>>)) IN
         IF ~HasGet(data) THEN [caught |-> TRUE, campaigns |-> JNull]
         ELSE [caught |-> FALSE, campaigns |-> Get(data, "campaigns", JList(<<>>))]

parse_records(response) ==
    LET a == AccessCampaigns(response) IN
    IF a.caught THEN Returned(<<>>)
    ELSE IF ~Iterable(a.campaigns) THEN Raised
    ELSE CampaignLoop(a.campaigns.v, <<>>)

(***************************************************************************)
(* Page payloads.  Missing marks a key that the dict does not have.        *)
(***************************************************************************)
Missing == [t |-> "missing", v |-> 0]
MkDict(f) == JDict([k \in {x \in DOMAIN f : f[x] # Missing} |-> f[k]])

\* the metric of the documented example page, and one with defaults to fill
Metric1 ==
    JDict([date |-> JStr("2025-06-01"), cost |-> JNum(10), impressions |-> JNum(100),
           clicks |-> JNum(5), conversions |-> JNum(1), revenue |-> JNum(20)])
Metric2 == JDict([date |-> JStr("2025-06-02"), clicks |-> JNum(7)])
MetricVals == {JNull, Metric1, Metric2}

\* what a collection-valued key may hold besides a list: nothing, null, a number
NonLists == {Missing, JNull, JNum(5)}

SeqsUpTo(S, n) == UNION {[1..k -> S] : k \in 0..n}

\* names by position, so that siblings differ
CampaignNames == <<"C1", "C2", "C3", "C4", "C5", "C6", "C7", "C8">>
AdNames == <<"A1", "A2", "A3", "A4", "A5", "A6", "A7", "A8">>

\* values by the number n of list elements they hold in all, an element
\* counting itself
MetricsFields(n) ==
    IF n = 0 THEN NonLists \cup {JList(<<>>)}
    ELSE {JList(s) : s \in [1..n -> MetricVals]}
AdShapes(n) ==
    (IF n = 1 THEN {JNull} ELSE {}) \cup {MkDict([metrics |-> m]) : m \in MetricsFields(n - 1)}
RECURSIVE AdSeqs(_)
AdSeqs(n) ==
    IF n = 0 THEN {<<>>}
    ELSE UNION {{<<a>> \o r : a \in AdShapes(k), r \in AdSeqs(n - k)} : k \in 1..n}
AdsFields(n) ==
    IF n = 0 THEN NonLists \cup {JList(<<>>)}
    ELSE {JList(s) : s \in AdSeqs(n)}
CampaignShapes(n) ==
    (IF n = 1 THEN {JNull} ELSE {}) \cup {MkDict([ads |-> a]) : a \in AdsFields(n - 1)}
RECURSIVE CampaignSeqs(_)
CampaignSeqs(n) ==
    IF n = 0 THEN {<<>>}
    ELSE UNION {{<<c>> \o r : c \in CampaignShapes(k), r \in CampaignSeqs(n - k)} : k \in 1..n}
WithName(x, name) ==
    IF x.t = "dict" THEN JDict([k \in DOMAIN x.v \cup {"name"} |->
                                 IF k = "name" THEN JStr(name) ELSE x.v[k]])
    ELSE x
NameAds(c) ==
    IF c.t = "dict" /\ "ads" \in DOMAIN c.v /\ c.v.ads.t = "list"
    THEN JDict([c.v EXCEPT !.ads =
                  JList([j \in 1..Len(c.v.ads.v) |-> WithName(c.v.ads.v[j], AdNames[j])])])
    ELSE c
NameCampaigns(cs) ==
    IF cs.t = "list"
    THEN JList([i \in 1..Len(cs.v) |-> WithName(NameAds(cs.v[i]), CampaignNames[i])])
    ELSE cs

Page(campaigns) == MkDict([data |-> MkDict([campaigns |-> campaigns])])

\* pages written out: the documented example, elements without a name, and two
\* campaigns that both carry records
ExamplePage ==
    Page(JList(<<JDict([name |-> JStr("C1"),
                        ads |-> JList(<<JDict([name |-> JStr("A1"),
                                               metrics |-> JList(<<Metric1>>)])>>)])>>))
NamelessPage ==
    Page(JList(<<JDict([ads |-> JList(<<JDict([metrics |-> JList(<<Metric2>>)])>>)])>>))
TwoCampaignPage ==
    Page(JList(<<JDict([name |-> JStr("C1"),
                        ads |-> JList(<<JDict([name |-> JStr("A1"),
                                               metrics |-> JList(<<Metric1, Metric2>>)]),
                                        JDict([name |-> JStr("A2"),
                                               metrics |-> JList(<<Metric2>>)])>>)]),
                 JDict([name |-> JStr("C2"),
                        ads |-> JList(<<JDict([name |-> JStr("A1"),
                                               metrics |-> JList(<<Metric1>>)])>>)])>>))

\* the arguments parse_records is applied to: responses that are no dict, a
\* data entry or a campaigns entry that is absent, null or a number, an empty
\* campaign list, the pages written out above ...
ShortInputs ==
    {JNull, JList(<<>>)}
    \cup {MkDict([data |-> d]) : d \in NonLists}
    \cup {Page(c) : c \in NonLists \cup {JList(<<>>)}}
    \cup {ExamplePage, NamelessPage, TwoCampaignPage}

\* ... and every campaign list of 1 to MaxNodes list elements in all
IsParseInput(x) ==
    \/ x \in ShortInputs
    \/ \E n \in 1..MaxNodes : \E k \in 1..n :
          \E c \in CampaignShapes(k), r \in CampaignSeqs(n - k) :
             x = Page(NameCampaigns(JList(<<c>> \o r)))

(***************************************************************************)
(* What the server may answer to one GET.                                  *)
(***************************************************************************)
\* the data entry of a page: the example's, two campaigns, none, and one whose
\* campaign list is null
PageData ==
    {ExamplePage.v.data, TwoCampaignPage.v.data, Missing, MkDict([campaigns |-> JNull])}
HasNextVals == {Missing, JBool(TRUE), JBool(FALSE)}
CursorVals == {Missing, JNull, JStr("c1"), JStr("c2")}

SuccessBodies ==
    {MkDict([status |-> JStr("SUCCESS"), data |-> d, hasNextPage |-> h, nextCursor |-> c]) :
        d \in PageData, h \in HasNextVals, c \in CursorVals}
\* a body whose status is not "SUCCESS": another status, or none
NonSuccessBodies ==
    {MkDict([status |-> st, data |-> ExamplePage.v.data, hasNextPage |-> JBool(FALSE),
             nextCursor |-> Missing]) : st \in {JStr("PENDING"), Missing}}
\* the bodies that decode to an object
DictBodies == SuccessBodies \cup NonSuccessBodies
\* a body that decodes to something other than an object
NonDictBodies == {JNull, JList(<<>>)}

\* delay is drawn from these; 5 is the default
DefaultDelay == 5
Delays == {0, 1, DefaultDelay}

RECURSIVE Pow2(_)
Pow2(n) == IF n = 0 THEN 1 ELSE 2 * Pow2(n - 1)

(***************************************************************************)
(* State.                                                                  *)
(***************************************************************************)
VARIABLES
    parse_pc,       \* "call" before parse_records runs, "done" after
    parse_in,       \* its argument
    parse_out,      \* its outcome
    \* fetch_data: arguments and locals
    pc,             \* "while", "for", "sleep", "parse", "done"
    max_retries,
    delay,
    all_records,
    has_next_page,
    cursor,
    params,         \* params["cursor"], Missing when the key is not set
    attempt,        \* position of `for attempt in range(max_retries)`
    response_json,  \* Missing while the name is unbound
    wait_time,
    fetch_result,   \* how the call ended: "list", "none" or "raised"
    \* fetch_data: history of the call
    page,           \* pages begun (iterations of the while loop)
    page_requests,  \* the GETs of the current page, in order
    page_waits,     \* the completed sleeps of the current page, in order
    page_errors,    \* attempts of the current page that raised
    page_pending,   \* attempts of the current page answered without SUCCESS
    flattened,      \* the bodies flattened so far, in order
    response_of,    \* the page and attempt whose GET bound response_json
    \* load_to_bigquery: the current call
    load_pc,        \* "ready" between calls, "waiting" inside load_job.result()
    data_format,
    data,
    client_calls,   \* the methods of bq_client invoked by the current call
    thrown,         \* the exception raised inside the try, "" when none
    load_result,    \* how the last call ended
    \* the warehouse
    job,            \* the load job of the current call
    table,          \* the target table: whether it exists, and its rows
    load_calls      \* calls begun

parseVars == <<parse_pc, parse_in, parse_out>>
fetchArgs == <<max_retries, delay>>
fetchLocals == <<all_records, has_next_page, cursor, params, attempt, response_json, wait_time>>
fetchHistory == <<page, page_requests, page_waits, page_errors, page_pending, flattened,
                  response_of>>
fetchVars == <<pc, fetchArgs, fetchLocals, fetch_result, fetchHistory>>
loadVars == <<load_pc, data_format, data, client_calls, thrown, load_result, job, table,
              load_calls>>
vars == <<parseVars, fetchVars, loadVars>>

(***************************************************************************)
(* SpecParse: parse_records applied once to any bounded page payload.      *)
(***************************************************************************)
ParseIdle ==
    /\ parse_pc = "idle"
    /\ parse_in = JNull
    /\ parse_out = Returned(<<>>)

\* response_json is not bound by any request yet
NoRequest == [page |-> 0, attempt |-> 0]

FetchIdle ==
    /\ pc = "idle"
    /\ max_retries = 0
    /\ delay = 0
    /\ all_records = <<>>
    /\ has_next_page = JBool(TRUE)
    /\ cursor = JNull
    /\ params = Missing
    /\ attempt = 0
    /\ response_json = Missing
    /\ wait_time = 0
    /\ fetch_result = [kind |-> "running", records |-> <<>>]
    /\ page = 0
    /\ page_requests = <<>>
    /\ page_waits = <<>>
    /\ page_errors = 0
    /\ page_pending = 0
    /\ flattened = <<>>
    /\ response_of = NoRequest

NoJob ==
    [state |-> "none", id |-> 0, rows |-> <<>>, config |-> <<>>, error |-> "", output_rows |-> 0]
NoResult == [kind |-> "none", output_rows |-> 0, job_id |-> 0, error |-> ""]

LoadIdle ==
    /\ load_pc = "idle"
    /\ data_format = ""
    /\ data = [kind |-> "list", rows |-> <<>>]
    /\ client_calls = <<>>
    /\ thrown = ""
    /\ load_result = NoResult
    /\ job = NoJob
    /\ table = [exists |-> FALSE, rows |-> <<>>]
    /\ load_calls = 0

InitParse ==
    /\ parse_pc = "call"
    /\ IsParseInput(parse_in)
    /\ parse_out = Returned(<<>>)
    /\ FetchIdle
    /\ LoadIdle

CallParseRecords ==
    /\ parse_pc = "call"
    /\ parse_out' = parse_records(parse_in)
    /\ parse_pc' = "done"
    /\ UNCHANGED <<parse_in, fetchVars, loadVars>>

NextParse == CallParseRecords

SpecParse == InitParse /\ [][NextParse]_vars

(***************************************************************************)
(* Spec: one call of fetch_data.                                           *)
(***************************************************************************)
\* lines 12, 24-26
Init ==
    /\ pc = "while"
    /\ max_retries \in 0..MaxRetries
    /\ delay \in Delays
    /\ all_records = <<>>
    /\ has_next_page = JBool(TRUE)
    /\ cursor = JNull
    /\ params = Missing
    /\ attempt = 0
    /\ response_json = Missing
    /\ wait_time = 0
    /\ fetch_result = [kind |-> "running", records |-> <<>>]
    /\ page = 0
    /\ page_requests = <<>>
    /\ page_waits = <<>>
    /\ page_errors = 0
    /\ page_pending = 0
    /\ flattened = <<>>
    /\ response_of = NoRequest
    /\ ParseIdle
    /\ LoadIdle

\* mutant: the loop runs once more than max_retries
MoreAttemptsOffByOne(a, m) == a <= m

\* for attempt in range(max_retries): whether the loop has a next value (line 40)
MoreAttempts(a, m) == a < m

\* mutant: a request error waits the bare delay, whatever the attempt
ErrorBackoffFlat(d, a) == d

\* wait_time = delay * (2 ** attempt) after a request error (line 46)
ErrorBackoff(d, a) == d * Pow2(a)

\* mutant: the wait grows linearly
BackoffLinear(d, a) == d * (a + 1)

\* wait_time = delay * (2 ** attempt) after a status other than SUCCESS (line 56)
Backoff(d, a) == d * Pow2(a)

\* mutant: the sleep is skipped when no attempt is left
SleepsAfterIfMore(a, m) == a + 1 < m

\* time.sleep(wait_time) follows every failed attempt, whether or not the
\* loop has another value (lines 46-49, 56-58)
SleepsAfter(a, m) == TRUE

\* mutant: any status that is present ends the retry loop
IsSuccessLax(status) == status # JNull

\* status = response_json.get("status"); status == "SUCCESS" (lines 51-52)
StatusOf(body) == Get(body, "status", JNull)
IsSuccess(status) == status = JStr("SUCCESS")

\* mutant: the attempt counter carries over from the page before
FirstAttemptCarried(prev) == prev

\* range(max_retries) starts anew at 0 in each iteration of the while loop (line 40)
FirstAttempt(prev) == 0

\* mutant: the records accumulated so far are handed back when retries run out
OnExhaustedPartial(recs) == [kind |-> "list", records |-> recs]

\* what the call hands back when the for loop runs out (lines 59-61)
OnExhausted(recs) == [kind |-> "none", records |-> <<>>]

\* mutant: the records of the earlier pages are handed back when a page fails
\* to flatten
OnParseErrorPartial(recs) == [kind |-> "list", records |-> recs]

\* what the call hands back when parse_records raises (lines 66-68) and at
\* the end of the while loop (line 77)
OnParseError(recs) == [kind |-> "none", records |-> <<>>]
OnLoopEnd(recs) == [kind |-> "list", records |-> recs]

\* mutant: the page's records go in front of the accumulated ones
ExtendFront(acc, recs) == recs \o acc

\* all_records.extend(records) (line 70)
Extend(acc, recs) == acc \o recs

\* params["cursor"] is set only when cursor is truthy (lines 30-37)
BuildParams(cur) == IF Truthy(cur) THEN cur ELSE Missing

\* mutant: the loop gives up after one page
LoopGoesOnOnce(h, pages) == Truthy(h) /\ pages < 1

\* while has_next_page: the condition reads has_next_page alone, whatever the
\* number of pages fetched so far (line 28)
LoopGoesOn(h, pages) == Truthy(h)

\* while has_next_page: build the params and enter the retry loop
WhileContinue ==
    /\ pc = "while"
    /\ LoopGoesOn(has_next_page, page)
    /\ params' = BuildParams(cursor)
    /\ attempt' = FirstAttempt(attempt)
    /\ pc' = "for"
    /\ page' = page + 1
    /\ page_requests' = <<>>
    /\ page_waits' = <<>>
    /\ page_errors' = 0
    /\ page_pending' = 0
    /\ UNCHANGED <<fetchArgs, all_records, has_next_page, cursor, response_json, wait_time,
                   fetch_result, flattened, response_of, parseVars, loadVars>>

\* the loop condition is false: return all_records (line 77)
WhileExit ==
    /\ pc = "while"
    /\ ~LoopGoesOn(has_next_page, page)
    /\ fetch_result' = OnLoopEnd(all_records)
    /\ pc' = "done"
    /\ UNCHANGED <<fetchArgs, fetchLocals, fetchHistory, parseVars, loadVars>>

\* the GET of this attempt, with the sleep that came before it in this loop
ThisRequest ==
    [attempt |-> attempt,
     cursor |-> params,
     slept |-> IF page_waits = <<>> THEN -1 ELSE page_waits[Len(page_waits)]]

\* requests.get, raise_for_status or json() raises: back off (lines 41-49)
RequestError ==
    /\ pc = "for"
    /\ MoreAttempts(attempt, max_retries)
    /\ page_requests' = Append(page_requests, ThisRequest)
    /\ page_errors' = page_errors + 1
    /\ wait_time' = ErrorBackoff(delay, attempt)
    /\ pc' = "sleep"
    /\ UNCHANGED <<fetchArgs, all_records, has_next_page, cursor, params, attempt,
                   response_json, fetch_result, page, page_waits, page_pending, flattened,
                   response_of, parseVars, loadVars>>

\* the body is no object: response_json.get raises outside the try (line 51)
RequestNotDict ==
    /\ pc = "for"
    /\ MoreAttempts(attempt, max_retries)
    /\ \E body \in NonDictBodies : response_json' = body
    /\ page_requests' = Append(page_requests, ThisRequest)
    /\ response_of' = [page |-> page, attempt |-> attempt]
    /\ fetch_result' = [kind |-> "raised", records |-> <<>>]
    /\ pc' = "done"
    /\ UNCHANGED <<fetchArgs, all_records, has_next_page, cursor, params, attempt, wait_time,
                   page, page_waits, page_errors, page_pending, flattened,
                   parseVars, loadVars>>

\* status != "SUCCESS": back off (lines 51, 55-58)
RequestNotReady ==
    /\ pc = "for"
    /\ MoreAttempts(attempt, max_retries)
    /\ \E body \in DictBodies :
          /\ ~IsSuccess(StatusOf(body))
          /\ response_json' = body
    /\ response_of' = [page |-> page, attempt |-> attempt]
    /\ page_requests' = Append(page_requests, ThisRequest)
    /\ page_pending' = page_pending + 1
    /\ wait_time' = Backoff(delay, attempt)
    /\ pc' = "sleep"
    /\ UNCHANGED <<fetchArgs, all_records, has_next_page, cursor, params, attempt,
                   fetch_result, page, page_waits, page_errors, flattened,
                   parseVars, loadVars>>

\* status == "SUCCESS": break (lines 51-54).  The server announces a next page
\* on at most MaxPages - 1 pages.
RequestSuccess ==
    /\ pc = "for"
    /\ MoreAttempts(attempt, max_retries)
    /\ \E body \in DictBodies :
          /\ IsSuccess(StatusOf(body))
          /\ Truthy(Get(body, "hasNextPage", JBool(FALSE))) => page < MaxPages
          /\ response_json' = body
    /\ response_of' = [page |-> page, attempt |-> attempt]
    /\ page_requests' = Append(page_requests, ThisRequest)
    /\ pc' = "parse"
    /\ UNCHANGED <<fetchArgs, all_records, has_next_page, cursor, params, attempt, wait_time,
                   fetch_result, page, page_waits, page_errors, page_pending, flattened,
                   parseVars, loadVars>>

\* the for loop ran out: return None (lines 59-61)
RetriesExhausted ==
    /\ pc = "for"
    /\ ~MoreAttempts(attempt, max_retries)
    /\ fetch_result' = OnExhausted(all_records)
    /\ pc' = "done"
    /\ UNCHANGED <<fetchArgs, fetchLocals, fetchHistory, parseVars, loadVars>>

\* time.sleep(wait_time) returns and the loop takes its next value (lines 48-49, 58)
Sleep ==
    /\ pc = "sleep"
    /\ page_waits' = IF SleepsAfter(attempt, max_retries)
                      THEN Append(page_waits, wait_time)
                      ELSE page_waits
    /\ attempt' = attempt + 1
    /\ pc' = "for"
    /\ UNCHANGED <<fetchArgs, all_records, has_next_page, cursor, params, response_json,
                   wait_time, fetch_result, page, page_requests, page_errors, page_pending,
                   flattened, response_of, parseVars, loadVars>>

\* parse_records returned: extend, read hasNextPage and nextCursor (lines 63-75)
ParseOk ==
    /\ pc = "parse"
    /\ ~parse_records(response_json).raised
    /\ all_records' = Extend(all_records, parse_records(response_json).records)
    /\ has_next_page' = Get(response_json, "hasNextPage", JBool(FALSE))
    /\ cursor' = Get(response_json, "nextCursor", JNull)
    /\ flattened' = Append(flattened, response_json)
    /\ pc' = "while"
    /\ UNCHANGED <<fetchArgs, params, attempt, response_json, wait_time, fetch_result, page,
                   page_requests, page_waits, page_errors, page_pending,
                   response_of, parseVars, loadVars>>

\* parse_records raised: return None (lines 66-68)
ParseFail ==
    /\ pc = "parse"
    /\ parse_records(response_json).raised
    /\ fetch_result' = OnParseError(all_records)
    /\ pc' = "done"
    /\ UNCHANGED <<fetchArgs, fetchLocals, fetchHistory, parseVars, loadVars>>

Next ==
    \/ WhileContinue
    \/ WhileExit
    \/ RequestError
    \/ RequestNotDict
    \/ RequestNotReady
    \/ RequestSuccess
    \/ RetriesExhausted
    \/ Sleep
    \/ ParseOk
    \/ ParseFail

Spec == Init /\ [][Next]_vars

(***************************************************************************)
(* SpecLoad: calls of load_to_bigquery, one after the other, on one target *)
(* table of a warehouse that runs each job while the caller waits.         *)
(***************************************************************************)
Formats == {"df", "json", "csv", "DF", ""}
RowVals == {"a", "b"}
\* a DataFrame (it has .columns) or a list of dicts (it has none)
DataVals ==
    {[kind |-> "frame", columns |-> <<"col_1">>, rows |-> r] : r \in SeqsUpTo(RowVals, MaxRows)}
    \cup {[kind |-> "list", rows |-> r] : r \in SeqsUpTo(RowVals, MaxRows)}
\* what the client or the job may raise
ClientErrors == {"Forbidden", "BadRequest"}

\* lines 85: the table named by dataset_id, table_name and formatted_date
TableId(dataset_id, table_name, formatted_date) == <<dataset_id, table_name, formatted_date>>
Target == TableId("test_dataset", "test_table", "20250701")

\* mutant: both branches ask the warehouse to replace the table's rows
JobConfigTruncate(fmt, d) ==
    IF fmt = "df"
    THEN [schema |-> [i \in 1..Len(d.columns) |-> <<d.columns[i], "STRING">>],
          source_format |-> "",
          write_disposition |-> "WRITE_TRUNCATE",
          create_disposition |-> "CREATE_IF_NEEDED",
          schema_update_options |-> <<"ALLOW_FIELD_ADDITION", "ALLOW_FIELD_RELAXATION">>]
    ELSE [schema |-> <<>>,
          source_format |-> "NEWLINE_DELIMITED_JSON",
          write_disposition |-> "WRITE_TRUNCATE",
          create_disposition |-> "CREATE_IF_NEEDED",
          schema_update_options |-> <<"ALLOW_FIELD_ADDITION", "ALLOW_FIELD_RELAXATION">>]

\* the LoadJobConfig of each branch (lines 91-100, 108-113)
JobConfig(fmt, d) ==
    IF fmt = "df"
    THEN [schema |-> [i \in 1..Len(d.columns) |-> <<d.columns[i], "STRING">>],
          source_format |-> "",
          write_disposition |-> "WRITE_APPEND",
          create_disposition |-> "CREATE_IF_NEEDED",
          schema_update_options |-> <<"ALLOW_FIELD_ADDITION", "ALLOW_FIELD_RELAXATION">>]
    ELSE [schema |-> <<>>,
          source_format |-> "NEWLINE_DELIMITED_JSON",
          write_disposition |-> "WRITE_APPEND",
          create_disposition |-> "CREATE_IF_NEEDED",
          schema_update_options |-> <<"ALLOW_FIELD_ADDITION", "ALLOW_FIELD_RELAXATION">>]

\* mutant: every format other than "df" is loaded as JSON
DispatchLax(fmt, d) ==
    IF fmt = "df"
    THEN IF d.kind = "frame"
         THEN [raise |-> "", method |-> "load_table_from_dataframe"]
         ELSE [raise |-> "AttributeError", method |-> ""]
    ELSE [raise |-> "", method |-> "load_table_from_json"]

\* the branch taken on data_format: the client method to call, or what is
\* raised before any call (lines 89-120)
Dispatch(fmt, d) ==
    CASE fmt = "df" ->
            IF d.kind = "frame"
            THEN [raise |-> "", method |-> "load_table_from_dataframe"]
            ELSE [raise |-> "AttributeError", method |-> ""]
      [] fmt = "json" -> [raise |-> "", method |-> "load_table_from_json"]
      [] OTHER -> [raise |-> "ValueError", method |-> ""]

\* mutant: the handler raises an error of its own in place of the one caught
ExceptHandlerWrap(e) ==
    [kind |-> "raised", output_rows |-> 0, job_id |-> 0, error |-> "RuntimeError"]

\* except Exception as e: log and re-raise (lines 126-128)
ExceptHandler(e) == [kind |-> "raised", output_rows |-> 0, job_id |-> 0, error |-> e]

\* the one call the code makes on the client (lines 102-104, 115-117)
ClientCall(fmt, d) ==
    [method |-> Dispatch(fmt, d).method, table_id |-> Target, rows |-> d.rows,
     job_config |-> JobConfig(fmt, d)]

\* mutant: the call returns the job as soon as it is submitted
ResultReadyAtOnce(j) == j.state \in {"pending", "done"}

\* load_job.result() blocks until the job has completed (line 122)
ResultReady(j) == j.state = "done"

\* what the call hands back: the object load_job.result() returned, which
\* carries the warehouse's row count and the job's identifier (lines 122-124)
ReturnValue(j) ==
    [kind |-> "returned", output_rows |-> j.output_rows, job_id |-> j.id, error |-> ""]

\* the warehouse can run the job: the table exists or may be created
CanLoad(tbl, j) == tbl.exists \/ j.config.create_disposition = "CREATE_IF_NEEDED"

\* the warehouse's effect of a finished load job on the table
ApplyLoad(tbl, j) ==
    [exists |-> TRUE,
     rows |-> IF j.config.write_disposition = "WRITE_APPEND" THEN tbl.rows \o j.rows
              ELSE j.rows]

InitLoad ==
    /\ load_pc = "ready"
    /\ data_format = ""
    /\ data = [kind |-> "list", rows |-> <<>>]
    /\ client_calls = <<>>
    /\ thrown = ""
    /\ load_result = NoResult
    /\ job = NoJob
    /\ table \in {[exists |-> FALSE, rows |-> <<>>]}
                 \cup {[exists |-> TRUE, rows |-> r] : r \in SeqsUpTo(RowVals, 1)}
    /\ load_calls = 0
    /\ ParseIdle
    /\ FetchIdle

\* a call whose data_format is neither "df" nor "json": ValueError (lines 119-120)
LoadUnsupported ==
    /\ load_pc = "ready"
    /\ load_calls < MaxLoads
    /\ \E fmt \in Formats, d \in DataVals :
          /\ Dispatch(fmt, d).raise = "ValueError"
          /\ data_format' = fmt
          /\ data' = d
    /\ client_calls' = <<>>
    /\ thrown' = "ValueError"
    /\ load_result' = ExceptHandler("ValueError")
    /\ job' = NoJob
    /\ load_calls' = load_calls + 1
    /\ UNCHANGED <<load_pc, table, parseVars, fetchVars>>

\* a "df" call whose data has no .columns: AttributeError (line 92)
LoadNoColumns ==
    /\ load_pc = "ready"
    /\ load_calls < MaxLoads
    /\ \E fmt \in Formats, d \in DataVals :
          /\ Dispatch(fmt, d).raise = "AttributeError"
          /\ data_format' = fmt
          /\ data' = d
    /\ client_calls' = <<>>
    /\ thrown' = "AttributeError"
    /\ load_result' = ExceptHandler("AttributeError")
    /\ job' = NoJob
    /\ load_calls' = load_calls + 1
    /\ UNCHANGED <<load_pc, table, parseVars, fetchVars>>

\* the client accepts the load and hands back a job; the call goes on to
\* load_job.result() (lines 102-104, 115-117, 122)
LoadSubmit ==
    /\ load_pc = "ready"
    /\ load_calls < MaxLoads
    /\ \E fmt \in Formats, d \in DataVals :
          /\ Dispatch(fmt, d).raise = ""
          /\ data_format' = fmt
          /\ data' = d
          /\ client_calls' = <<ClientCall(fmt, d)>>
          /\ job' = [state |-> "pending", id |-> load_calls + 1, rows |-> d.rows,
                     config |-> JobConfig(fmt, d), error |-> "", output_rows |-> 0]
    /\ thrown' = ""
    /\ load_result' = NoResult
    /\ load_calls' = load_calls + 1
    /\ load_pc' = "waiting"
    /\ UNCHANGED <<table, parseVars, fetchVars>>

\* the client raises on submission
LoadSubmitFails ==
    /\ load_pc = "ready"
    /\ load_calls < MaxLoads
    /\ \E fmt \in Formats, d \in DataVals, e \in ClientErrors :
          /\ Dispatch(fmt, d).raise = ""
          /\ data_format' = fmt
          /\ data' = d
          /\ client_calls' = <<ClientCall(fmt, d)>>
          /\ thrown' = e
          /\ load_result' = ExceptHandler(e)
    /\ job' = NoJob
    /\ load_calls' = load_calls + 1
    /\ UNCHANGED <<load_pc, table, parseVars, fetchVars>>

\* the warehouse finishes the job: the rows are written
JobSucceeds ==
    /\ job.state = "pending"
    /\ CanLoad(table, job)
    /\ job' = [job EXCEPT !.state = "done", !.output_rows = Len(job.rows)]
    /\ table' = ApplyLoad(table, job)
    /\ UNCHANGED <<load_pc, data_format, data, client_calls, thrown, load_result, load_calls,
                   parseVars, fetchVars>>

\* the warehouse fails the job: nothing is written
JobFails ==
    /\ job.state = "pending"
    /\ \E e \in ClientErrors : job' = [job EXCEPT !.state = "failed", !.error = e]
    /\ UNCHANGED <<load_pc, data_format, data, client_calls, thrown, load_result, table,
                   load_calls, parseVars, fetchVars>>

\* load_job.result() returns: log and return the result (lines 122-124)
LoadReturn ==
    /\ load_pc = "waiting"
    /\ ResultReady(job)
    /\ load_result' = ReturnValue(job)
    /\ load_pc' = "ready"
    /\ UNCHANGED <<data_format, data, client_calls, thrown, job, table, load_calls,
                   parseVars, fetchVars>>

\* load_job.result() raises the job's error (lines 122, 126-128)
LoadJobError ==
    /\ load_pc = "waiting"
    /\ job.state = "failed"
    /\ thrown' = job.error
    /\ load_result' = ExceptHandler(job.error)
    /\ load_pc' = "ready"
    /\ UNCHANGED <<data_format, data, client_calls, job, table, load_calls,
                   parseVars, fetchVars>>

NextLoad ==
    \/ LoadUnsupported
    \/ LoadNoColumns
    \/ LoadSubmit
    \/ LoadSubmitFails
    \/ JobSucceeds
    \/ JobFails
    \/ LoadReturn
    \/ LoadJobError

SpecLoad == InitLoad /\ [][NextLoad]_vars

(***************************************************************************)
(* Properties of fetch_data (checked under Spec).                          *)
(***************************************************************************)
RECURSIVE ConcatPages(_)
ConcatPages(bodies) ==
    IF bodies = <<>> THEN <<>>
    ELSE parse_records(Head(bodies)).records \o ConcatPages(Tail(bodies))

\* the current page's attempts that failed
PageFailures == page_errors + page_pending

\* C1: a list is returned only when the last page flattened announced no next
\* page, every page begun was flattened, and the list is the concatenation of
\* the pages' records in page order; a call that ends on a page it did not
\* flatten (retries ran out, or parse_records raised) returns None, and so does
\* every call that ends otherwise while all bodies were objects.
C1_CompleteOrFailure ==
    /\ fetch_result.kind = "list" =>
          /\ pc = "done"
          /\ flattened # <<>>
          /\ Len(flattened) = page
          /\ ~Truthy(Get(flattened[Len(flattened)], "hasNextPage", JBool(FALSE)))
          /\ fetch_result.records = ConcatPages(flattened)
    /\ (pc = "done" /\ Len(flattened) < page /\ HasGet(response_json)) =>
          fetch_result = [kind |-> "none", records |-> <<>>]
    /\ (pc = "done" /\ response_json = Missing) =>
          fetch_result = [kind |-> "none", records |-> <<>>]

\* records of an earlier page were accumulated, and the call returned None
C1_Witness ==
    /\ pc = "done"
    /\ fetch_result.kind = "none"
    /\ all_records # <<>>
    /\ page = 2

\* C2: when the first response is SUCCESS with hasNextPage = false, the call
\* returns the flattened records of that page (none when the campaign list
\* cannot be read) after exactly one GET.
C2_SinglePage ==
    (/\ pc = "done"
     /\ page = 1
     /\ PageFailures = 0
     /\ HasGet(response_json)
     /\ Get(response_json, "status", JNull) = JStr("SUCCESS")
     /\ Get(response_json, "hasNextPage", JNull) = JBool(FALSE))
    => /\ fetch_result.kind = "list"
       /\ fetch_result.records = parse_records(response_json).records
       /\ Len(page_requests) = 1

\* C3: a page is never given more than max_retries GETs; when max_retries
\* responses of a page had a status other than SUCCESS, the page is not
\* flattened, and the call ends with None after exactly max_retries GETs.
C3_ExactRetries ==
    /\ Len(page_requests) <= max_retries
    /\ (page >= 1 /\ page_pending >= max_retries) =>
          /\ pc \in {"for", "sleep", "done"}
          /\ Len(flattened) < page
    /\ (pc = "done" /\ page_pending >= max_retries) =>
          /\ fetch_result = [kind |-> "none", records |-> <<>>]
          /\ Len(page_requests) = max_retries

\* a later page used up a budget of at least two attempts on non-SUCCESS answers
C3_Witness ==
    /\ pc = "done"
    /\ page = 2
    /\ max_retries >= 2
    /\ page_pending = max_retries
    /\ fetch_result.kind = "none"

\* C4 as stated: the sleep that comes before the GET of attempt i lasted
\* delay * 2^i, and the sleeps of a page increase.
C4_WaitBeforeAttempt ==
    /\ \A k \in 1..Len(page_requests) :
          page_requests[k].slept # -1 =>
             page_requests[k].slept = delay * Pow2(page_requests[k].attempt)
    /\ \A k, l \in 1..Len(page_waits) : k < l => page_waits[k] <= page_waits[l]

\* C4, amended: the sleep that follows failed attempt i (and so comes before
\* attempt i + 1) lasts delay * 2^i, no sleep comes before attempt 0, and the
\* sleeps of a page never decrease and strictly increase when delay > 0.
C4_WaitAfterAttempt ==
    /\ \A k \in 1..Len(page_requests) :
          /\ page_requests[k].attempt = k - 1
          /\ k = 1 => page_requests[k].slept = -1
          /\ k > 1 => page_requests[k].slept = delay * Pow2(page_requests[k].attempt - 1)
    /\ \A k \in 1..Len(page_waits) : page_waits[k] = delay * Pow2(k - 1)
    /\ pc = "sleep" => wait_time = delay * Pow2(attempt)
    /\ \A k, l \in 1..Len(page_waits) :
          k < l => /\ page_waits[k] <= page_waits[l]
                   /\ delay > 0 => page_waits[k] < page_waits[l]

\* three attempts of one page, with a positive delay: the sleeps before
\* attempts 1 and 2 are done
C4_Witness ==
    /\ delay > 0
    /\ Len(page_waits) >= 2
    /\ Len(page_requests) >= 3
    /\ page_pending >= 2

\* a page was flattened that announced a next page without a usable cursor
AfterCursorlessPage ==
    /\ flattened # <<>>
    /\ Truthy(Get(flattened[Len(flattened)], "hasNextPage", JBool(FALSE)))
    /\ Get(flattened[Len(flattened)], "nextCursor", JNull) = JNull

\* C5: after a SUCCESS page with hasNextPage = true and a missing or null
\* nextCursor the call fails: it begins no further page and issues no GET.
C5_NullCursorIsFatal ==
    AfterCursorlessPage =>
        /\ fetch_result.kind # "list"
        /\ ~(page > Len(flattened) /\ page_requests # <<>>)

\* C9: request errors and non-SUCCESS answers draw on one budget of
\* max_retries attempts per page: each takes one attempt and is followed by
\* one sleep whose length is fixed by the attempt's index alone; when
\* max_retries attempts of a page have failed the call returns None; and an
\* exception leaves the call only when a body was no object.
C9_SharedBudget ==
    /\ PageFailures <= max_retries
    /\ pc = "for" => attempt = PageFailures /\ Len(page_waits) = PageFailures
    /\ pc = "sleep" =>
          /\ attempt = PageFailures - 1
          /\ Len(page_waits) = PageFailures - 1
          /\ wait_time = delay * Pow2(attempt)
    /\ \A k \in 1..Len(page_waits) : page_waits[k] = delay * Pow2(k - 1)
    /\ (pc = "done" /\ page >= 1 /\ PageFailures >= max_retries) =>
          /\ fetch_result = [kind |-> "none", records |-> <<>>]
          /\ Len(page_requests) = max_retries
    /\ fetch_result.kind = "raised" => response_json \in NonDictBodies

\* a page's budget was used up by a mix of both kinds of failure
C9_Witness ==
    /\ pc = "done"
    /\ fetch_result.kind = "none"
    /\ page_errors >= 1
    /\ page_pending >= 1
    /\ PageFailures = max_retries

(***************************************************************************)
(* Properties of parse_records (checked under SpecParse).                  *)
(***************************************************************************)
\* C7: parse_records never raises, and returns no records when the guarded
\* access to the campaign list failed.
C7_FlattenIsTotal ==
    parse_pc = "done" =>
        /\ ~parse_out.raised
        /\ AccessCampaigns(parse_in).caught => parse_out.records = <<>>

\* the records of the well-formed metrics of the well-formed ads of the
\* well-formed campaigns of a page whose campaign list is a list
SiblingRecords(response) ==
    LET cs == AccessCampaigns(response).campaigns.v IN
    {MakeRecord(Get(cs[i], "name", JStr("")),
                Get(cs[i].v.ads.v[j], "name", JStr("")),
                cs[i].v.ads.v[j].v.metrics.v[k]) :
        <<i, j, k>> \in
            {x \in (1..Len(cs)) \X (1..MaxNodes + 3) \X (1..MaxNodes + 3) :
                /\ HasGet(cs[x[1]])
                /\ "ads" \in DOMAIN cs[x[1]].v
                /\ Iterable(cs[x[1]].v.ads)
                /\ x[2] <= Len(cs[x[1]].v.ads.v)
                /\ HasGet(cs[x[1]].v.ads.v[x[2]])
                /\ "metrics" \in DOMAIN cs[x[1]].v.ads.v[x[2]].v
                /\ Iterable(cs[x[1]].v.ads.v[x[2]].v.metrics)
                /\ x[3] <= Len(cs[x[1]].v.ads.v[x[2]].v.metrics.v)
                /\ HasGet(cs[x[1]].v.ads.v[x[2]].v.metrics.v[x[3]])}}

\* C8: whatever else the page holds, every well-formed metric of a
\* well-formed ad of a well-formed campaign has its record in the result.
C8_SiblingsSurvive ==
    (/\ parse_pc = "done"
     /\ ~AccessCampaigns(parse_in).caught
     /\ Iterable(AccessCampaigns(parse_in).campaigns))
    => \A r \in SiblingRecords(parse_in) :
          \E n \in 1..Len(parse_out.records) : parse_out.records[n] = r

(***************************************************************************)
(* Properties of load_to_bigquery (checked under SpecLoad).                *)
(***************************************************************************)
\* C6: a call whose data_format is neither "df" nor "json" ends at once with
\* ValueError, and it calls no method of the client and starts no job.
C6_UnsupportedFormat ==
    (load_calls > 0 /\ data_format \notin {"df", "json"}) =>
        /\ load_pc = "ready"
        /\ load_result.kind = "raised"
        /\ load_result.error = "ValueError"
        /\ client_calls = <<>>
        /\ job.state = "none"

\* a "csv" call has ended
C6_Witness ==
    /\ load_calls > 0
    /\ data_format = "csv"
    /\ load_result.kind = "raised"

\* C10: a call invokes the client at most once and owns at most one job; an
\* error raised by the submission or by the wait for the job reaches the
\* caller as it was raised, and the job that failed is not submitted again.
C10_NoRetry ==
    /\ Len(client_calls) <= 1
    /\ job.state # "none" => job.id = load_calls /\ Len(client_calls) = 1
    /\ load_result.kind = "raised" =>
          /\ load_result.error = thrown
          /\ load_pc = "ready"
          /\ job.state \in {"none", "failed"}
    /\ (load_pc = "ready" /\ job.state = "failed") =>
          /\ load_result.kind = "raised"
          /\ load_result.error = job.error

\* the wait for the job raised, after one submission
C10_Witness ==
    /\ load_pc = "ready"
    /\ job.state = "failed"
    /\ load_result.kind = "raised"
    /\ Len(client_calls) = 1

\* ---- the load call and the table ----

\* C11: a successful load is synchronous. While the job is pending the call
\* has returned nothing; a value is returned only once the job has completed
\* and its rows are in the table, after exactly one client call, and it
\* carries the row count the warehouse reported and the job's identifier.
C11_SynchronousLoad ==
    /\ load_pc = "waiting" =>
          /\ load_result = NoResult
          /\ job.state # "none"
          /\ Len(client_calls) = 1
    /\ load_result.kind = "returned" =>
          /\ load_pc = "ready"
          /\ job.state = "done"
          /\ table.exists
          /\ Len(client_calls) = 1
          /\ load_result.output_rows = job.output_rows
          /\ load_result.output_rows = Len(data.rows)
          /\ load_result.job_id = job.id
          /\ thrown = ""

C11_Witness ==
    /\ load_result.kind = "returned"
    /\ data_format = "json"
    /\ load_result.output_rows = 2
    /\ load_result.job_id = job.id
    /\ job.state = "done"

IsPrefix(s, t) == Len(s) <= Len(t) /\ SubSeq(t, 1, Len(s)) = s

\* C12: the table is append-only under load calls of either form. No step
\* removes, replaces or reorders rows already in the table or drops the
\* table; a job that completes puts exactly its rows after the existing ones,
\* creating the table when it was absent; every other step, a failed job
\* included, leaves the table as it was.
C12_AppendOnly ==
    [][ /\ table.exists => table'.exists
        /\ IsPrefix(table.rows, table'.rows)
        /\ (job.state = "pending" /\ job'.state = "done") =>
              /\ table'.exists
              /\ table'.rows = table.rows \o job.rows
        /\ ~(job.state = "pending" /\ job'.state = "done") => table' = table
      ]_vars

C12_Witness ==
    /\ load_result.kind = "returned"
    /\ load_calls = 2
    /\ job.rows # <<>>
    /\ Len(table.rows) > Len(job.rows) + 1

\* ---- the pages of fetch_data ----

\* the call ended because the current page ran out of attempts
Exhausted ==
    /\ pc = "done"
    /\ fetch_result.kind = "none"
    /\ Len(page_requests) = PageFailures

\* the call ended because the current page's SUCCESS body failed to flatten
ParseFailed ==
    /\ pc = "done"
    /\ fetch_result.kind = "none"
    /\ Len(page_requests) = PageFailures + 1

\* C13: the retry count is per page.  On every page the attempts are numbered
\* from 0 and the waits restart at delay * 2^0; the attempts left depend only
\* on the failures of the current page, so a page runs out only after
\* max_retries attempts of its own.
C13_FreshBudget ==
    /\ \A k \in 1..Len(page_requests) : page_requests[k].attempt = k - 1
    /\ \A k \in 1..Len(page_waits) : page_waits[k] = delay * Pow2(k - 1)
    /\ pc = "for" => attempt = PageFailures
    /\ Exhausted =>
          /\ PageFailures = max_retries
          /\ Len(page_requests) = max_retries

\* page 1 succeeded on its last attempt, and page 2 still made max_retries
\* attempts before it ran out
C13_Witness ==
    /\ Exhausted
    /\ page = 2
    /\ max_retries >= 2
    /\ delay > 0
    /\ response_of = [page |-> 1, attempt |-> max_retries - 1]
    /\ page_errors = max_retries
    /\ page_waits[1] = delay

\* C14: when parse_records raises on a SUCCESS page, the next step ends the
\* call with None: no request is added, no page is begun, the page is not
\* retried, and the records of the earlier pages are not handed back.  Nothing
\* happens after the call has ended.
C14_ParseFailureAborts ==
    [][ /\ pc # "done"
        /\ (pc = "parse" /\ parse_records(response_json).raised) =>
              /\ pc' = "done"
              /\ fetch_result' = [kind |-> "none", records |-> <<>>]
              /\ page_requests' = page_requests
              /\ page' = page
              /\ flattened' = flattened
      ]_vars

\* the second page failed to flatten after the first had given records
C14_Witness ==
    /\ ParseFailed
    /\ page = 2
    /\ all_records # <<>>
    /\ IsSuccess(StatusOf(response_json))
    /\ parse_records(response_json).raised
    /\ fetch_result = [kind |-> "none", records |-> <<>>]

\* the cursor announced by the page flattened before the current one: none on
\* the first page, and none when that page gave no nextCursor or a null one
AnnouncedCursor ==
    IF page <= 1
    THEN Missing
    ELSE LET c == Get(flattened[page - 1], "nextCursor", JNull)
         IN  IF c = JNull THEN Missing ELSE c

\* the body's hasNextPage says that no page follows (false, or absent)
SaysLastPage(body) == ~Truthy(Get(body, "hasNextPage", JBool(FALSE)))

\* the cursors sent, and the end of the loop for the pages that flatten: every
\* request of the first page carries no cursor; every request of a later page,
\* retries included, carries exactly the nextCursor of the SUCCESS page
\* flattened just before it, and a later page is begun only after a page that
\* announced one; the call ends with the accumulated records exactly when a
\* flattened SUCCESS page says that no page follows.
CursorThreading ==
    /\ page >= 1 => Len(flattened) \in {page - 1, page}
    /\ \A k \in 1..Len(page_requests) : page_requests[k].cursor = AnnouncedCursor
    /\ page >= 2 => ~SaysLastPage(flattened[page - 1])
    /\ fetch_result.kind = "list" =>
          /\ page >= 1
          /\ Len(flattened) = page
          /\ SaysLastPage(flattened[page])
          /\ fetch_result.records = all_records
    /\ (page >= 1 /\ Len(flattened) = page /\ SaysLastPage(flattened[page])) =>
          /\ pc \in {"while", "done"}
          /\ pc = "done" => fetch_result = [kind |-> "list", records |-> all_records]

\* C15 as stated: the cursors are threaded as above, and the call ends with
\* the accumulated records whenever the current page's SUCCESS response says
\* that no page follows.
C15_CursorThreading ==
    /\ \A k \in 1..Len(page_requests) : page_requests[k].cursor = AnnouncedCursor
    /\ fetch_result.kind = "list" =>
          /\ SaysLastPage(flattened[Len(flattened)])
          /\ fetch_result.records = all_records
    /\ ( /\ pc = "done"
         /\ response_of.page = page
         /\ HasGet(response_json)
         /\ IsSuccess(StatusOf(response_json))
         /\ SaysLastPage(response_json) ) =>
          fetch_result = [kind |-> "list", records |-> all_records]

\* ---- the order of the records ----

\* the positions <<campaign, ad, metric>> of the page's well-formed metrics
WellFormedPaths(response) ==
    LET cs == AccessCampaigns(response).campaigns.v IN
    {x \in (1..Len(cs)) \X (1..MaxNodes + 3) \X (1..MaxNodes + 3) :
        /\ HasGet(cs[x[1]])
        /\ "ads" \in DOMAIN cs[x[1]].v
        /\ Iterable(cs[x[1]].v.ads)
        /\ x[2] <= Len(cs[x[1]].v.ads.v)
        /\ HasGet(cs[x[1]].v.ads.v[x[2]])
        /\ "metrics" \in DOMAIN cs[x[1]].v.ads.v[x[2]].v
        /\ Iterable(cs[x[1]].v.ads.v[x[2]].v.metrics)
        /\ x[3] <= Len(cs[x[1]].v.ads.v[x[2]].v.metrics.v)
        /\ HasGet(cs[x[1]].v.ads.v[x[2]].v.metrics.v[x[3]])}

\* the record of the metric at position x
RecordAt(response, x) ==
    LET cs == AccessCampaigns(response).campaigns.v IN
    MakeRecord(Get(cs[x[1]], "name", JStr("")),
               Get(cs[x[1]].v.ads.v[x[2]], "name", JStr("")),
               cs[x[1]].v.ads.v[x[2]].v.metrics.v[x[3]])

\* campaign first, then ad, then metric
NestingLeq(x, y) ==
    \/ x[1] < y[1]
    \/ x[1] = y[1] /\ x[2] < y[2]
    \/ x[1] = y[1] /\ x[2] = y[2] /\ x[3] <= y[3]

\* the positions of S from the least to the greatest
RECURSIVE InNestingOrder(_)
InNestingOrder(S) ==
    IF S = {} THEN <<>>
    ELSE LET least == CHOOSE x \in S : \A y \in S : NestingLeq(x, y)
         IN  <<least>> \o InNestingOrder(S \ {least})

\* one record per well-formed metric of the page, in nesting order
NestingOrder(response) ==
    LET paths == InNestingOrder(WellFormedPaths(response))
    IN  [n \in 1..Len(paths) |-> RecordAt(response, paths[n])]

RECURSIVE PagesInOrder(_)
PagesInOrder(bodies) ==
    IF bodies = <<>> THEN <<>>
    ELSE PagesInOrder(SubSeq(bodies, 1, Len(bodies) - 1))
            \o NestingOrder(bodies[Len(bodies)])

\* C16: the list a successful call returns holds, page after page in the
\* order the pages were fetched, one record for each metric of the page, in
\* campaign, then ad, then metric order: nothing reordered, doubled or lost.
C16_OrderPreserved ==
    fetch_result.kind = "list" =>
        /\ fetch_result.records = PagesInOrder(flattened)
        /\ all_records = fetch_result.records

\* two pages with different records: four from two campaigns, then one
C16_Witness ==
    /\ fetch_result.kind = "list"
    /\ Len(flattened) = 2
    /\ Get(flattened[1], "data", JNull) = TwoCampaignPage.v.data
    /\ Get(flattened[2], "data", JNull) = ExamplePage.v.data
    /\ Len(fetch_result.records) = 5
    /\ fetch_result.records[2].date = JStr("2025-06-02")
    /\ fetch_result.records[3].ad_name = JStr("A2")
    /\ fetch_result.records[4].campaign = JStr("C2")

\* ---- termination ----

\* fetch_data is sequential code whose every step completes: a GET returns or
\* raises within request_timeout, a sleep lasts wait_time (lines 41-58)
FairSpec == Spec /\ WF_vars(Next)

\* why a call that has ended did end
EndCause ==
    \/ Exhausted
    \/ ParseFailed
    \/ fetch_result.kind = "raised"
    \/ /\ fetch_result.kind = "list"
       /\ Len(flattened) = page
       /\ SaysLastPage(flattened[page])

\* an upper bound on the steps the call still takes, the server announcing a
\* next page on at most MaxPages - 1 pages: two per attempt left on the current
\* page (the GET and the sleep), and a full page for each page still to come
StepsLeft ==
    IF pc = "done" THEN 0
    ELSE 1 + (MaxPages - page) * (2 * max_retries + 3)
           + (CASE pc = "for" -> 2 * (max_retries - attempt) + 2
                [] pc = "sleep" -> 2 * (max_retries - attempt) + 1
                [] pc = "parse" -> 1
                [] OTHER -> 0)

\* the call is never stuck before it has ended: each loop has a next step,
\* and parse_records returns or raises
CanStep ==
    /\ pc = "while" => ENABLED (WhileContinue \/ WhileExit)
    /\ pc = "for" => ENABLED (RequestError \/ RetriesExhausted)
    /\ pc = "sleep" => ENABLED Sleep
    /\ pc = "parse" => parse_records(response_json).raised \in BOOLEAN

\* C17: no page is requested more than max_retries times, the call is never
\* stuck, and every step brings it nearer to its end as long as the server
\* stops announcing next pages, so it returns; it ends only on a page that
\* said that no page follows, ran out of attempts or broke the call, never on
\* a count of pages or of total attempts.
C17_Termination ==
    /\ [](Len(page_requests) <= max_retries)
    /\ [](StepsLeft >= 0 /\ CanStep)
    /\ [][StepsLeft' < StepsLeft]_vars
    /\ [](pc = "done" => EndCause)

\* under fairness the call ends
Terminates == <>(pc = "done")

\* the call went through a retried first page and ended after the last page
\* the server announced
C17_Witness ==
    /\ pc = "done"
    /\ page = 2
    /\ fetch_result.kind = "list"
    /\ max_retries >= 2
    /\ response_of = [page |-> 2, attempt |-> max_retries - 1]

\* ---- the response that is flattened, the waits, the outcomes ----

\* C18: the response handed to parse_records, and read for hasNextPage and
\* nextCursor, was bound by the latest attempt of the current page and its
\* status is SUCCESS; every body that was flattened had status SUCCESS.
C18_FreshSuccessResponse ==
    /\ pc = "parse" =>
          /\ response_of = [page |-> page, attempt |-> attempt]
          /\ attempt = Len(page_requests) - 1
          /\ HasGet(response_json)
          /\ Get(response_json, "status", JNull) = JStr("SUCCESS")
    /\ \A k \in 1..Len(flattened) : Get(flattened[k], "status", JNull) = JStr("SUCCESS")
    /\ (pc = "while" /\ page >= 1) =>
          /\ response_of = [page |-> page, attempt |-> Len(page_requests) - 1]
          /\ flattened[page] = response_json
          /\ has_next_page = Get(response_json, "hasNextPage", JBool(FALSE))
          /\ cursor = Get(response_json, "nextCursor", JNull)

\* the second page was flattened after a request error and a non-SUCCESS
\* answer, and it differs from the first page
C18_Witness ==
    /\ pc = "while"
    /\ page = 2
    /\ page_errors >= 1
    /\ page_pending >= 1
    /\ Len(flattened) = 2
    /\ flattened[2] # flattened[1]
    /\ response_json = flattened[2]

RECURSIVE SumSeq(_)
SumSeq(s) == IF s = <<>> THEN 0 ELSE Head(s) + SumSeq(Tail(s))

\* C19: every failed attempt, the last of a page included, is followed by one
\* sleep of delay * 2^attempt before anything else: outside a sleep the page
\* has one completed wait per failure, so a page that runs out has made
\* max_retries waits that add up to delay * (2^max_retries - 1) before None is
\* returned.
C19_WaitAfterEveryFailure ==
    /\ pc = "sleep" =>
          /\ attempt = PageFailures - 1
          /\ Len(page_waits) = PageFailures - 1
          /\ wait_time = delay * Pow2(attempt)
    /\ pc # "sleep" => Len(page_waits) = PageFailures
    /\ \A k \in 1..Len(page_waits) : page_waits[k] = delay * Pow2(k - 1)
    /\ Exhausted =>
          /\ Len(page_waits) = max_retries
          /\ SumSeq(page_waits) = delay * (Pow2(max_retries) - 1)

\* a page ran out after failures of both kinds with the default delay
C19_Witness ==
    /\ Exhausted
    /\ max_retries >= 2
    /\ delay = DefaultDelay
    /\ page_errors >= 1
    /\ page_pending >= 1
    /\ Len(page_waits) = max_retries
    /\ page_waits[max_retries] = delay * Pow2(max_retries - 1)

\* C20: whatever the server does, the call ends with a list or with None and
\* no exception leaves fetch_data.
C20_NoException == fetch_result.kind \in {"running", "list", "none"}

====
